---- MODULE Spec2Model ----
(***************************************************************************)
(* A model of ticketutil's JiraTicket (src/ticketutil/jira.py): the ticket *)
(* handle (project, ticket_id, ticket_url, request_result), the public     *)
(* operations and the two helpers _generate_ticket_url and                 *)
(* _prepare_ticket_fields.                                                 *)
(*                                                                         *)
(* Python strings are sequences of tokens; None is the one-token sequence  *)
(* <<"None">>, which no modelled string equals.  A {'name': v} dictionary  *)
(* is the sequence <<"name">> \o v.                                        *)
(***************************************************************************)
EXTENDS Integers, Sequences, FiniteSets, TLC

VARIABLES
    build,           \* which Python runs the code (decides dict iteration)
    project,         \* self.project
    ticket_id,       \* self.ticket_id
    ticket_url,      \* self.ticket_url
    request_result,  \* self.request_result, the record kept on the handle
    op,              \* the last operation called and its arguments
    ret,             \* what the last operation returned (NoResult if nothing)
    raised,          \* the exception that escaped the last operation, or "none"
    calls,           \* the HTTP requests the last operation issued, in order
    created,         \* url set by the latest successful create; None after set_ticket_id
    url_id0,         \* URL builder runs: the ticket_id before the first build
    url_builds,      \* URL builder runs: number of builds done
    url_first,       \* URL builder runs: ticket_id and url after the first build
    f_in,            \* normalizer runs: the mapping passed in
    f_out,           \* normalizer runs: the mapping as normalization left it
    f_state          \* normalizer runs: "ready", "returned" or "raised"

vars == <<build, project, ticket_id, ticket_url, request_result, op, ret, raised,
          calls, created, url_id0, url_builds, url_first, f_in, f_out, f_state>>

handle == <<project, ticket_id, ticket_url, request_result>>
urlvars == <<url_id0, url_builds, url_first>>
fieldvars == <<f_in, f_out, f_state>>
oplog == <<op, ret, raised, calls>>

----------------------------------------------------------------------------
(* Bounds *)

MaxIdLen == 3
MaxBuilds == 2
MaxFields == 3
MaxWatchers == 2
MaxTransitions == 2

----------------------------------------------------------------------------
(* Strings *)

None == <<"None">>

Truthy(s) == s # None /\ s # <<>>

Contains(s, c) == \E i \in 1..Len(s) : s[i] = c

StartsWith(s, p) == Len(s) >= Len(p) /\ SubSeq(s, 1, Len(p)) = p

SeqsUpTo(S, n) == UNION {[1..k -> S] : k \in 0..n}

Url == <<"https://jira">>

rest_url == Url \o <<"/rest/api/2/issue">>

Projects == {<<"P">>, <<"Q">>}

IdChars == {"P", "-", "1"}

TicketIds == SeqsUpTo(IdChars, MaxIdLen)

----------------------------------------------------------------------------
(* The result record *)

Result(status, error_message, url, ticket_content, watchers) ==
    [status |-> status, error_message |-> error_message, url |-> url,
     ticket_content |-> ticket_content, watchers |-> watchers]

NoResult == [status |-> "NoResult"]

Failure(rr, error_message) ==
    [rr EXCEPT !.status = "Failure", !.error_message = error_message]

----------------------------------------------------------------------------
(* URL builder: _generate_ticket_url.  Returns the new ticket_id, the url  *)
(* and the updated request_result.                                         *)

NeedsPrefixAlways(id) == TRUE

\* line 44: '-' not in self.ticket_id
NeedsPrefix(id) == ~Contains(id, "-")

_generate_ticket_url(proj, id, rr) ==
    LET new_id == IF Truthy(id) /\ NeedsPrefix(id) THEN proj \o <<"-">> \o id ELSE id
        t_url == IF Truthy(id) THEN Url \o <<"/browse/">> \o new_id ELSE None
    IN [ticket_id |-> new_id, ticket_url |-> t_url, request_result |-> [rr EXCEPT !.url = t_url]]

----------------------------------------------------------------------------
(* Field normalizer: _prepare_ticket_fields.                               *)
(* A dict is its entry table: a sequence of entries in insertion order; a  *)
(* deleted entry stays in the table as a dead slot.                        *)

Builds == {"list_copy", "view", "view_checked"}

NameKeys == {"priority", "assignee", "reporter", "parent"}

Wrap(v) == <<"name">> \o v

Entry(k, v) == [key |-> k, value |-> v, live |-> TRUE]

HasKey(d, k) == \E i \in 1..Len(d) : d[i].live /\ d[i].key = k

IndexOf(d, k) == CHOOSE i \in 1..Len(d) : d[i].live /\ d[i].key = k

Get(d, k) == d[IndexOf(d, k)].value

DictSet(d, k, v) ==
    IF HasKey(d, k) THEN [d EXCEPT ![IndexOf(d, k)].value = v]
    ELSE Append(d, Entry(k, v))

DictPop(d, k) == [d EXCEPT ![IndexOf(d, k)].live = FALSE]

Used(d) == Cardinality({i \in 1..Len(d) : d[i].live})

Items(d) == SelectSeq(d, LAMBDA e : e.live)

KeysOf(d) == {d[i].key : i \in {j \in 1..Len(d) : d[j].live}}

\* lines 464-468: the loop body for one (key, value) pair
LoopBody(d, key, value) ==
    LET d1 == IF key \in NameKeys THEN DictSet(d, key, Wrap(value)) ELSE d
    IN IF key = "type"
       THEN DictPop(DictSet(d1, "issuetype", Wrap(value)), "type")
       ELSE d1

\* Python 2: fields.items() is a list copied before the loop starts
RECURSIVE IterateList(_, _, _)
IterateList(d, items, i) ==
    IF i > Len(items) THEN [fields |-> Items(d), raised |-> FALSE]
    ELSE IterateList(LoopBody(d, items[i].key, items[i].value), items, i + 1)

\* Python 3: fields.items() is a live view; the iterator walks the entry
\* table, raises when the dict's size differs from the size at the start and
\* (checked builds, 3.8 and later) when it meets more entries than that size
RECURSIVE NextLive(_, _)
NextLive(d, pos) ==
    IF pos > Len(d) \/ d[pos].live THEN pos ELSE NextLive(d, pos + 1)

RECURSIVE IterateView(_, _, _, _, _)
IterateView(d, pos, di_used, di_len, checked) ==
    IF di_used # Used(d) THEN [fields |-> Items(d), raised |-> TRUE]
    ELSE LET i == NextLive(d, pos)
         IN IF i > Len(d) THEN [fields |-> Items(d), raised |-> FALSE]
            ELSE IF checked /\ di_len = 0 THEN [fields |-> Items(d), raised |-> TRUE]
            ELSE IterateView(LoopBody(d, d[i].key, d[i].value), i + 1,
                             di_used, di_len - 1, checked)

_prepare_ticket_fields(fields, b) ==
    IF b = "list_copy" THEN IterateList(fields, fields, 1)
    ELSE IterateView(fields, 1, Len(fields), Len(fields), b = "view_checked")

FieldKeys == {"priority", "parent", "type", "issuetype", "environment"}

FieldValues == {<<"a">>, <<"b">>}

\* the keyword-argument dicts a caller can pass: distinct keys, no dead slots
FieldMappings ==
    {d \in SeqsUpTo([key : FieldKeys, value : FieldValues, live : {TRUE}], MaxFields) :
        \A i, j \in 1..Len(d) : i # j => d[i].key # d[j].key}

----------------------------------------------------------------------------
(* The remote system.  A request ends with a success status ("ok"), with a *)
(* response carrying a non-success status ("error": raise_for_status       *)
(* raises, r is bound) or with no response at all ("none": the session     *)
(* raises a RequestException before r is assigned).                        *)

Resp(status, kind, first, key, list) ==
    [status |-> status, kind |-> kind, first |-> first, key |-> key, list |-> list]

Ok == Resp("ok", "json", None, None, <<>>)

NoResponse == Resp("none", "none", None, None, <<>>)

\* an error response: a JSON body whose 'errors' has a first message, a JSON
\* body whose 'errors' is empty, or a body that is not JSON
ErrorResponses ==
    {Resp("error", "errors", <<"Field is required.">>, None, <<>>),
     Resp("error", "empty_errors", None, None, <<>>),
     Resp("error", "not_json", None, None, <<>>)}

PlainResponses == {Ok, Resp("error", "not_json", None, None, <<>>), NoResponse}

SimpleResponses == {Ok, NoResponse} \cup ErrorResponses

\* keys the remote system gives new tickets: always of the form KEY-N
CreatedKeys == {<<"P", "-", "2">>, <<"P", "-", "3">>}

CreateResponses ==
    {Resp("ok", "json", None, k, <<>>) : k \in CreatedKeys}
        \cup {Resp("ok", "not_json", None, None, <<>>), NoResponse} \cup ErrorResponses

TransitionIds == {<<"11">>, <<"21">>}

StatusNames == {<<"Done">>, <<"Open">>}

TransitionLists == SeqsUpTo([id : TransitionIds, to : StatusNames], MaxTransitions)

TransitionResponses ==
    {Resp("ok", "json", None, None, l) : l \in TransitionLists}
        \cup {Resp("ok", "not_json", None, None, <<>>),
              Resp("error", "not_json", None, None, <<>>), NoResponse}

WatcherNames == {"alice", "bob"}

WatcherLists == SeqsUpTo(WatcherNames, MaxWatchers)

WatcherResponses ==
    {Resp("ok", "json", None, None, l) : l \in WatcherLists}
        \cup {Resp("ok", "not_json", None, None, <<>>),
              Resp("error", "not_json", None, None, <<>>), NoResponse}

Call(verb, target, data, resp) ==
    [verb |-> verb, url |-> target, data |-> data, resp |-> resp]

\* what an operation did: the result returned (or NoResult), the exception
\* that escaped (or "none") and the requests issued
Out(r, exc, cs) == [ret |-> r, raised |-> exc, calls |-> cs]

NoTicketId ==
    <<"No ticket ID associated with ticket object. Set ticket ID with set_ticket_id(<ticket_id>)">>

\* lines 169, 218, 244: list(r.json()['errors'].values())[0] in the handler
ErrorExit(rr, prefix, resp, cs) ==
    IF resp.status = "none" THEN Out(NoResult, "UnboundLocalError", cs)
    ELSE IF resp.kind = "not_json" THEN Out(NoResult, "ValueError", cs)
    ELSE IF resp.kind = "empty_errors" THEN Out(NoResult, "IndexError", cs)
    ELSE Out(Failure(rr, prefix \o resp.first), "none", cs)

----------------------------------------------------------------------------
(* create *)

RECURSIVE Update(_, _, _)
Update(d, items, i) ==
    IF i > Len(items) THEN d
    ELSE Update(DictSet(d, items[i].key, items[i].value), items, i + 1)

\* [params, raised]: the payload, unless normalization raised
_create_ticket_parameters(proj, summary, description, fields, b) ==
    LET base == <<Entry("project", <<"key">> \o proj),
                  Entry("summary", summary),
                  Entry("description", description)>>
        n == _prepare_ticket_fields(fields, b)
    IN [params |-> IF n.raised THEN <<>> ELSE Update(base, n.fields, 1),
        raised |-> n.raised]

create_ticket_request_stale(proj, id, t_url, rr, params, resp) ==
    LET cs == <<Call("POST", rest_url, params, resp)>>
        same == [ticket_id |-> id, ticket_url |-> t_url, request_result |-> rr]
    IN IF resp.status # "ok"
       THEN [out |-> ErrorExit(rr, <<"Error creating ticket - ">>, resp, cs), h |-> same]
       ELSE IF resp.kind = "not_json"
       THEN [out |-> Out(NoResult, "ValueError", cs), h |-> same]
       ELSE LET g == _generate_ticket_url(proj, resp.key, rr)
            IN [out |-> Out(rr, "none", cs), h |-> [g EXCEPT !.request_result = rr]]

create_ticket_request_sticky(proj, id, t_url, rr, params, resp) ==
    LET cs == <<Call("POST", rest_url, params, resp)>>
        same == [ticket_id |-> id, ticket_url |-> t_url, request_result |-> rr]
        e == ErrorExit(rr, <<"Error creating ticket - ">>, resp, cs)
    IN IF resp.status # "ok"
       THEN [out |-> e,
             h |-> IF e.ret = NoResult THEN same ELSE [same EXCEPT !.request_result = e.ret]]
       ELSE IF resp.kind = "not_json"
       THEN [out |-> Out(NoResult, "ValueError", cs), h |-> same]
       ELSE LET g == _generate_ticket_url(proj, resp.key, rr)
            IN [out |-> Out(g.request_result, "none", cs), h |-> g]

\* the outcome of _create_ticket_request with the handle's new fields
_create_ticket_request(proj, id, t_url, rr, params, resp) ==
    LET cs == <<Call("POST", rest_url, params, resp)>>
        same == [ticket_id |-> id, ticket_url |-> t_url, request_result |-> rr]
    IN IF resp.status # "ok"
       THEN [out |-> ErrorExit(rr, <<"Error creating ticket - ">>, resp, cs), h |-> same]
       ELSE IF resp.kind = "not_json"
       THEN [out |-> Out(NoResult, "ValueError", cs), h |-> same]
       ELSE LET g == _generate_ticket_url(proj, resp.key, rr)
            IN [out |-> Out(g.request_result, "none", cs), h |-> g]

create_summary_only(proj, id, t_url, rr, summary, description, fields, resp, b) ==
    LET same == [ticket_id |-> id, ticket_url |-> t_url, request_result |-> rr]
        error_message == IF summary = None
              THEN <<"summary is a necessary parameter for ticket creation">> ELSE <<>>
    IN IF error_message # <<>>
       THEN [out |-> Out(Failure(rr, error_message), "none", <<>>), h |-> same]
       ELSE LET p == _create_ticket_parameters(proj, summary, description, fields, b)
            IN IF p.raised
               THEN [out |-> Out(NoResult, "RuntimeError", <<>>), h |-> same]
               ELSE _create_ticket_request(proj, id, t_url, rr, p.params, resp)

create(proj, id, t_url, rr, summary, description, fields, resp, b) ==
    LET same == [ticket_id |-> id, ticket_url |-> t_url, request_result |-> rr]
        m1 == IF summary = None
              THEN <<"summary is a necessary parameter for ticket creation">> ELSE <<>>
        error_message == IF description = None
              THEN <<"description is a necessary parameter for ticket creation">> ELSE m1
    IN IF error_message # <<>>
       THEN [out |-> Out(Failure(rr, error_message), "none", <<>>), h |-> same]
       ELSE LET p == _create_ticket_parameters(proj, summary, description, fields, b)
            IN IF p.raised
               THEN [out |-> Out(NoResult, "RuntimeError", <<>>), h |-> same]
               ELSE _create_ticket_request(proj, id, t_url, rr, p.params, resp)

----------------------------------------------------------------------------
(* edit, add_comment *)

edit(id, rr, fields, resp, b) ==
    IF ~Truthy(id) THEN Out(Failure(rr, NoTicketId), "none", <<>>)
    ELSE LET n == _prepare_ticket_fields(fields, b)
             cs == <<Call("PUT", rest_url \o <<"/">> \o id, n.fields, resp)>>
         IN IF n.raised THEN Out(NoResult, "RuntimeError", <<>>)
            ELSE IF resp.status = "ok" THEN Out(rr, "none", cs)
            ELSE ErrorExit(rr, <<"Error editing ticket - ">>, resp, cs)

add_comment_unchecked(id, rr, comment, resp) ==
    LET cs == <<Call("POST", rest_url \o <<"/">> \o id \o <<"/comment">>, comment, resp)>>
    IN IF resp.status = "ok" THEN Out(rr, "none", cs)
       ELSE ErrorExit(rr, <<"Error adding comment to ticket - ">>, resp, cs)

add_comment(id, rr, comment, resp) ==
    IF ~Truthy(id) THEN Out(Failure(rr, NoTicketId), "none", <<>>)
    ELSE LET cs == <<Call("POST", rest_url \o <<"/">> \o id \o <<"/comment">>, comment, resp)>>
         IN IF resp.status = "ok" THEN Out(rr, "none", cs)
            ELSE ErrorExit(rr, <<"Error adding comment to ticket - ">>, resp, cs)

----------------------------------------------------------------------------
(* change_status *)

RECURSIVE FirstMatch(_, _, _)
FirstMatch(transitions, status_name, i) ==
    IF i > Len(transitions) THEN None
    ELSE IF transitions[i].to = status_name THEN transitions[i].id
    ELSE FirstMatch(transitions, status_name, i + 1)

get_status_id_last(id, status_name, resp) ==
    LET cs == <<Call("GET", rest_url \o <<"/">> \o id \o <<"/transitions">>, <<>>, resp)>>
        matches == {i \in 1..Len(resp.list) : resp.list[i].to = status_name}
        last == CHOOSE i \in matches : \A j \in matches : j <= i
    IN IF resp.status # "ok" THEN [status_id |-> None, raised |-> "none", calls |-> cs]
       ELSE IF resp.kind = "not_json"
       THEN [status_id |-> None, raised |-> "ValueError", calls |-> cs]
       ELSE [status_id |-> IF matches = {} THEN None ELSE resp.list[last].id,
             raised |-> "none", calls |-> cs]

\* [status_id, raised, calls]; status_id is None when the method returns nothing
_get_status_id(id, status_name, resp) ==
    LET cs == <<Call("GET", rest_url \o <<"/">> \o id \o <<"/transitions">>, <<>>, resp)>>
    IN IF resp.status # "ok" THEN [status_id |-> None, raised |-> "none", calls |-> cs]
       ELSE IF resp.kind = "not_json"
       THEN [status_id |-> None, raised |-> "ValueError", calls |-> cs]
       ELSE [status_id |-> FirstMatch(resp.list, status_name, 1), raised |-> "none",
             calls |-> cs]

change_status(id, rr, status, lresp, presp) ==
    IF ~Truthy(id) THEN Out(Failure(rr, NoTicketId), "none", <<>>)
    ELSE LET s == _get_status_id(id, status, lresp)
             cs == Append(s.calls,
                          Call("POST", rest_url \o <<"/">> \o id \o <<"/transitions">>,
                               s.status_id, presp))
         IN IF s.raised # "none" THEN Out(NoResult, s.raised, s.calls)
            ELSE IF ~Truthy(s.status_id)
            THEN Out(Failure(rr, <<"Not a valid status: ">> \o status), "none", s.calls)
            ELSE IF presp.status = "ok" THEN Out(rr, "none", cs)
            ELSE Out(Failure(rr, <<"Error changing status of ticket">>), "none", cs)

----------------------------------------------------------------------------
(* watchers *)

Digit(n) ==
    CASE n = 0 -> "0" [] n = 1 -> "1" [] n = 2 -> "2" [] n = 3 -> "3" [] n = 4 -> "4"
      [] n = 5 -> "5" [] n = 6 -> "6" [] n = 7 -> "7" [] n = 8 -> "8" [] n = 9 -> "9"

\* "{0}".format(n) for a count n >= 0
RECURSIVE DecStr(_)
DecStr(n) == IF n < 10 THEN <<Digit(n)>> ELSE DecStr(n \div 10) \o <<Digit(n % 10)>>

\* [list, raised, calls]; list is None when the method returns nothing
_get_watchers_list(id, resp) ==
    LET cs == <<Call("GET", rest_url \o <<"/">> \o id \o <<"/watchers">>, <<>>, resp)>>
    IN IF resp.status # "ok" THEN [list |-> None, raised |-> "none", calls |-> cs]
       ELSE IF resp.kind = "not_json"
       THEN [list |-> None, raised |-> "ValueError", calls |-> cs]
       ELSE [list |-> resp.list, raised |-> "none", calls |-> cs]

WatcherUrl(id, watcher) ==
    rest_url \o <<"/">> \o id \o <<"/watchers?username=">> \o watcher

\* lines 298-306: [count, calls] after the removals from the i-th watcher on
RECURSIVE RemoveEach(_, _, _, _, _, _)
RemoveEach(id, watchers_list, dresps, i, watcher_error_count, cs) ==
    IF i > Len(watchers_list) THEN [count |-> watcher_error_count, calls |-> cs]
    ELSE RemoveEach(id, watchers_list, dresps, i + 1,
                    IF dresps[i].status = "ok" THEN watcher_error_count
                    ELSE watcher_error_count + 1,
                    Append(cs, Call("DELETE", WatcherUrl(id, <<watchers_list[i]>>), <<>>,
                                    dresps[i])))

RemoveCountOne(n) == <<"Error removing ">> \o DecStr(1) \o <<" watchers from ticket">>

RemoveCountMessage(n) == <<"Error removing ">> \o DecStr(n) \o <<" watchers from ticket">>

remove_all_watchers(id, rr, lresp, dresps) ==
    IF ~Truthy(id) THEN Out(Failure(rr, NoTicketId), "none", <<>>)
    ELSE LET w == _get_watchers_list(id, lresp)
         IN IF w.raised # "none" THEN Out(NoResult, w.raised, w.calls)
            ELSE IF w.list = None THEN Out(NoResult, "TypeError", w.calls)
            ELSE LET r == RemoveEach(id, w.list, dresps, 1, 0, w.calls)
                 IN IF r.count # 0
                    THEN Out(Failure(rr, RemoveCountMessage(r.count)), "none", r.calls)
                    ELSE Out([rr EXCEPT !.watchers = w.list], "none", r.calls)

\* watcher.split('@')[0]
BeforeAt(s) ==
    LET at == CHOOSE i \in 1..Len(s) : s[i] = "@" /\ \A j \in 1..(i - 1) : s[j] # "@"
    IN SubSeq(s, 1, at - 1)

RECURSIVE Strip(_)
Strip(s) ==
    IF s = <<>> THEN s
    ELSE IF Head(s) = " " THEN Strip(Tail(s))
    ELSE IF s[Len(s)] = " " THEN Strip(SubSeq(s, 1, Len(s) - 1))
    ELSE s

\* lines 329-330, 358-359: the name piece of an email, or the name as given
WatcherName(watcher) ==
    IF Contains(watcher, "@") THEN Strip(BeforeAt(watcher)) ELSE watcher

remove_watcher(id, rr, watcher, resp) ==
    IF ~Truthy(id) THEN Out(Failure(rr, NoTicketId), "none", <<>>)
    ELSE LET name == WatcherName(watcher)
             cs == <<Call("DELETE", WatcherUrl(id, name), <<>>, resp)>>
         IN IF resp.status = "ok" THEN Out(rr, "none", cs)
            ELSE Out(Failure(rr, <<"Error removing watcher ">> \o name \o <<" from ticket">>),
                     "none", cs)

add_watcher(id, rr, watcher, resp) ==
    IF ~Truthy(id) THEN Out(Failure(rr, NoTicketId), "none", <<>>)
    ELSE LET quoted == <<"\"">> \o WatcherName(watcher) \o <<"\"">>
             cs == <<Call("POST", rest_url \o <<"/">> \o id \o <<"/watchers">>, quoted, resp)>>
             error_message == <<"Error adding ">> \o quoted \o <<" as a watcher to ticket">>
         IN IF quoted # <<>>
            THEN IF resp.status = "ok" THEN Out(rr, "none", cs)
                 ELSE Out(Failure(rr, error_message), "none", cs)
            ELSE Out(Failure(rr, error_message), "none", <<>>)

----------------------------------------------------------------------------
(* add_attachment: can_open says whether open(file_name, 'r') succeeds *)

add_attachment(id, rr, file_name, can_open, resp) ==
    IF ~Truthy(id) THEN Out(Failure(rr, NoTicketId), "none", <<>>)
    ELSE IF ~can_open
    THEN Out(Failure(rr, <<"File ">> \o file_name \o <<" not found">>), "none", <<>>)
    ELSE LET cs == <<Call("POST", rest_url \o <<"/">> \o id \o <<"/attachments">>,
                          file_name, resp)>>
         IN IF resp.status = "ok" THEN Out(rr, "none", cs)
            ELSE Out(Failure(rr, <<"Error attaching file ">> \o file_name), "none", cs)

----------------------------------------------------------------------------
(* Construction and the ticket-id setter *)

\* Ticket.__init__: keeps project and ticket_id and builds the url
Ticket_init(proj, id) ==
    _generate_ticket_url(proj, id, Result("Success", None, None, None, None))

\* JiraTicket.__init__: the handle after construction
JiraTicket_init(proj, id) ==
    LET t == Ticket_init(proj, id)
    IN [t EXCEPT !.request_result = Result("Success", None, t.ticket_url, None, None)]

\* Ticket.set_ticket_id: stores the id and rebuilds the url
set_ticket_id(proj, rr, id) ==
    LET g == _generate_ticket_url(proj, id, rr)
    IN [out |-> Out(g.request_result, "none", <<>>), h |-> g]

----------------------------------------------------------------------------
(* The handle and the operations called on it *)

MainProjects == {<<"P">>}

MainIds == {None, <<"1">>}

Summaries == {None, <<"a summary">>}

Descriptions == {None, <<"a description">>}

OpFields == {<<>>, <<Entry("type", <<"a">>)>>, <<Entry("priority", <<"a">>)>>}

Comments == {<<"a comment">>}

\* "", "u", "u@x", " u @x", "@x", " @x"
WatcherArgs ==
    {<<>>, <<"u">>, <<"u", "@", "x">>, <<" ", "u", " ", "@", "x">>, <<"@", "x">>,
     <<" ", "@", "x">>}

RequestedStatuses == {<<"Done">>}

FileNames == {<<"notes.txt">>}

Init ==
    /\ build \in Builds
    /\ project \in MainProjects
    /\ \E id \in MainIds :
          LET h == JiraTicket_init(project, id)
          IN /\ ticket_id = h.ticket_id
             /\ ticket_url = h.ticket_url
             /\ request_result = h.request_result
    /\ op = [name |-> "__init__", args |-> <<>>, id0 |-> None, url0 |-> None,
             prev |-> "clean"]
    /\ ret = NoResult
    /\ raised = "none"
    /\ calls = <<>>
    /\ created = None
    /\ url_id0 = None
    /\ url_builds = 0
    /\ url_first = [ticket_id |-> None, url |-> None]
    /\ f_in = <<>>
    /\ f_out = <<>>
    /\ f_state = "idle"

\* whether the result of the operation before this one was a Failure or
\* carried a watchers list ("carried"), or neither ("clean")
Carried ==
    IF ret = NoResult THEN "clean"
    ELSE IF ret.status = "Failure" \/ ret.watchers # None THEN "carried"
    ELSE "clean"

Did(name, args, o) ==
    /\ op' = [name |-> name, args |-> args, id0 |-> ticket_id, url0 |-> ticket_url,
              prev |-> Carried]
    /\ ret' = o.ret
    /\ raised' = o.raised
    /\ calls' = o.calls

Create ==
    \E summary \in Summaries, description \in Descriptions, fields \in OpFields,
       resp \in CreateResponses :
        LET c == create(project, ticket_id, ticket_url, request_result, summary,
                        description, fields, resp, build)
        IN /\ Did("create", <<summary, description, fields>>, c.out)
           /\ ticket_id' = c.h.ticket_id
           /\ ticket_url' = c.h.ticket_url
           /\ request_result' = c.h.request_result
           /\ created' = IF c.out.ret # NoResult /\ c.out.ret.status = "Success"
                         THEN c.h.ticket_url ELSE created
           /\ UNCHANGED <<build, project, urlvars, fieldvars>>

SetTicketId ==
    \E id \in MainIds :
        LET c == set_ticket_id(project, request_result, id)
        IN /\ Did("set_ticket_id", <<id>>, c.out)
           /\ ticket_id' = c.h.ticket_id
           /\ ticket_url' = c.h.ticket_url
           /\ request_result' = c.h.request_result
           /\ created' = None
           /\ UNCHANGED <<build, project, urlvars, fieldvars>>

Edit ==
    \E fields \in OpFields, resp \in SimpleResponses :
        /\ Did("edit", <<fields>>, edit(ticket_id, request_result, fields, resp, build))
        /\ UNCHANGED <<build, handle, created, urlvars, fieldvars>>

AddComment ==
    \E comment \in Comments, resp \in SimpleResponses :
        /\ Did("add_comment", <<comment>>,
               add_comment(ticket_id, request_result, comment, resp))
        /\ UNCHANGED <<build, handle, created, urlvars, fieldvars>>

ChangeStatus ==
    \E status \in RequestedStatuses, lresp \in TransitionResponses, presp \in PlainResponses :
        /\ Did("change_status", <<status>>,
               change_status(ticket_id, request_result, status, lresp, presp))
        /\ UNCHANGED <<build, handle, created, urlvars, fieldvars>>

RemoveAllWatchers ==
    \E lresp \in WatcherResponses :
        \E dresps \in [1..Len(lresp.list) -> PlainResponses] :
            /\ Did("remove_all_watchers", <<>>,
                   remove_all_watchers(ticket_id, request_result, lresp, dresps))
            /\ UNCHANGED <<build, handle, created, urlvars, fieldvars>>

RemoveWatcher ==
    \E watcher \in WatcherArgs, resp \in PlainResponses :
        /\ Did("remove_watcher", <<watcher>>,
               remove_watcher(ticket_id, request_result, watcher, resp))
        /\ UNCHANGED <<build, handle, created, urlvars, fieldvars>>

AddWatcher ==
    \E watcher \in WatcherArgs, resp \in PlainResponses :
        /\ Did("add_watcher", <<watcher>>,
               add_watcher(ticket_id, request_result, watcher, resp))
        /\ UNCHANGED <<build, handle, created, urlvars, fieldvars>>

AddAttachment ==
    \E file_name \in FileNames, can_open \in BOOLEAN, resp \in PlainResponses :
        /\ Did("add_attachment", <<file_name, can_open>>,
               add_attachment(ticket_id, request_result, file_name, can_open, resp))
        /\ UNCHANGED <<build, handle, created, urlvars, fieldvars>>

Next ==
    \/ Create
    \/ SetTicketId
    \/ Edit
    \/ AddComment
    \/ ChangeStatus
    \/ RemoveAllWatchers
    \/ RemoveWatcher
    \/ AddWatcher
    \/ AddAttachment

Spec == Init /\ [][Next]_vars

----------------------------------------------------------------------------
(* Runs of the URL builder alone: it is applied again and again to the     *)
(* handle it has just updated.                                             *)

InitUrl ==
    /\ build \in {"list_copy"}
    /\ project \in Projects
    /\ ticket_id \in TicketIds \cup {None}
    /\ ticket_url = None
    /\ request_result = Result("Success", None, None, None, None)
    /\ op = [name |-> "__init__", args |-> <<>>, id0 |-> None, url0 |-> None,
             prev |-> "clean"]
    /\ ret = NoResult
    /\ raised = "none"
    /\ calls = <<>>
    /\ created = None
    /\ url_id0 = ticket_id
    /\ url_builds = 0
    /\ url_first = [ticket_id |-> None, url |-> None]
    /\ f_in = <<>>
    /\ f_out = <<>>
    /\ f_state = "idle"

GenerateTicketUrl ==
    /\ url_builds < MaxBuilds
    /\ LET g == _generate_ticket_url(project, ticket_id, request_result)
       IN /\ ticket_id' = g.ticket_id
          /\ ticket_url' = g.ticket_url
          /\ request_result' = g.request_result
          /\ url_first' = IF url_builds = 0
                          THEN [ticket_id |-> g.ticket_id, url |-> g.ticket_url]
                          ELSE url_first
    /\ url_builds' = url_builds + 1
    /\ UNCHANGED <<build, project, oplog, created, url_id0, fieldvars>>

NextUrl == GenerateTicketUrl

SpecUrl == InitUrl /\ [][NextUrl]_vars

----------------------------------------------------------------------------
(* Runs of the field normalizer alone on every keyword-argument mapping.   *)

InitFields ==
    /\ build \in Builds
    /\ project \in MainProjects
    /\ ticket_id = None
    /\ ticket_url = None
    /\ request_result = Result("Success", None, None, None, None)
    /\ op = [name |-> "__init__", args |-> <<>>, id0 |-> None, url0 |-> None,
             prev |-> "clean"]
    /\ ret = NoResult
    /\ raised = "none"
    /\ calls = <<>>
    /\ created = None
    /\ url_id0 = None
    /\ url_builds = 0
    /\ url_first = [ticket_id |-> None, url |-> None]
    /\ f_in \in FieldMappings
    /\ f_out = <<>>
    /\ f_state = "ready"

PrepareTicketFields ==
    /\ f_state = "ready"
    /\ LET n == _prepare_ticket_fields(f_in, build)
       IN /\ f_out' = n.fields
          /\ f_state' = IF n.raised THEN "raised" ELSE "returned"
    /\ UNCHANGED <<build, handle, oplog, created, urlvars, f_in>>

NextFields == PrepareTicketFields

SpecFields == InitFields /\ [][NextFields]_vars

----------------------------------------------------------------------------
(* Properties *)

IdOps == {"edit", "add_comment", "change_status", "remove_all_watchers",
          "remove_watcher", "add_watcher", "add_attachment"}

Returned == raised = "none" /\ ret # NoResult

RemoteFailed == \E i \in 1..Len(calls) : calls[i].resp.status # "ok"

\* the first request got a success status and a well-formed body
FirstCallListed ==
    /\ Len(calls) >= 1
    /\ calls[1].resp.status = "ok"
    /\ calls[1].resp.kind = "json"

\* C1: an operation that requires a ticket id, called while ticket_id is
\* unset, returns Failure with the one fixed message and issues no request.
C1_UnsetIdFailsLocally ==
    (op.name \in IdOps /\ ~Truthy(op.id0)) =>
        /\ Returned
        /\ ret.status = "Failure"
        /\ ret.error_message = NoTicketId
        /\ calls = <<>>

C1_Witness ==
    /\ op.name = "remove_all_watchers"
    /\ ~Truthy(op.id0)
    /\ Returned
    /\ ret.status = "Failure"

\* C2: every failure of every public operation comes back as a result with
\* status Failure and a message; no exception escapes to the caller.
C2_NoExceptionEscapes ==
    /\ raised = "none"
    /\ (op.name # "__init__" /\ RemoteFailed) =>
          ret.status = "Failure" /\ Truthy(ret.error_message)

\* C3: create with summary None or description None returns Failure with a
\* non-empty message, issues no request and leaves ticket_id unchanged.
C3_CreateNeedsSummaryAndDescription ==
    (op.name = "create" /\ (op.args[1] = None \/ op.args[2] = None)) =>
        /\ Returned
        /\ ret.status = "Failure"
        /\ Truthy(ret.error_message)
        /\ calls = <<>>
        /\ ticket_id = op.id0

C3_Witness ==
    /\ op.name = "create"
    /\ op.args[1] # None
    /\ op.args[2] = None
    /\ Truthy(op.id0)
    /\ Returned
    /\ ret.status = "Failure"

\* the local preconditions of the last operation: the required arguments, the
\* ticket id, a non-empty watcher name to add, a file that opens, and a listed
\* transition that leads to the requested status
PreconditionFailed ==
    \/ op.name = "create" /\ (op.args[1] = None \/ op.args[2] = None)
    \/ op.name \in IdOps /\ ~Truthy(op.id0)
    \/ op.name = "add_watcher" /\ WatcherName(op.args[1]) = <<>>
    \/ op.name = "add_attachment" /\ ~op.args[2]
    \/ /\ op.name = "change_status"
       /\ FirstCallListed
       /\ \A i \in 1..Len(calls[1].resp.list) : calls[1].resp.list[i].to # op.args[1]

\* C4: a returned result has status Failure if and only if a local
\* precondition failed or a remote call did not end with a success status.
C4_FailureIffPreconditionOrRemote ==
    (op.name # "__init__" /\ Returned) =>
        ((ret.status = "Failure") <=> (PreconditionFailed \/ RemoteFailed))

\* C5: add_watcher with a ticket id set and an empty derived watcher name
\* returns Failure and issues no add-watcher request.
C5_EmptyWatcherNotAdded ==
    (op.name = "add_watcher" /\ Truthy(op.id0) /\ WatcherName(op.args[1]) = <<>>) =>
        /\ Returned
        /\ ret.status = "Failure"
        /\ calls = <<>>

FailedRemovals == {i \in 2..Len(calls) : calls[i].resp.status # "ok"}

\* C6: remove_all_watchers with a ticket id set and the watchers listed
\* issues one removal per listed watcher, in order, whatever the earlier
\* removals did; k >= 1 failed removals give Failure with the count k in the
\* message, none gives Success with watchers equal to the listed sequence.
C6_RemoveAllWatchers ==
    (op.name = "remove_all_watchers" /\ Truthy(op.id0) /\ FirstCallListed) =>
        LET listed == calls[1].resp.list
            k == Cardinality(FailedRemovals)
        IN /\ Len(calls) = 1 + Len(listed)
           /\ \A i \in 1..Len(listed) :
                 /\ calls[i + 1].verb = "DELETE"
                 /\ calls[i + 1].url = WatcherUrl(op.id0, <<listed[i]>>)
           /\ Returned
           /\ k >= 1 =>
                 /\ ret.status = "Failure"
                 /\ ret.error_message =
                        <<"Error removing ", Digit(k), " watchers from ticket">>
                 /\ ret.watchers = None
           /\ k = 0 =>
                 /\ ret.status = "Success"
                 /\ ret.error_message = None
                 /\ ret.watchers = listed

C6_Witness ==
    /\ op.name = "remove_all_watchers"
    /\ FirstCallListed
    /\ Len(calls) = 3
    /\ calls[2].resp.status # "ok"
    /\ calls[3].resp.status = "ok"
    /\ Returned
    /\ ret.status = "Failure"

\* C7: for every mapping that contains type, normalization completes and
\* returns a mapping with issuetype = {name: value of type}, without type and
\* with every other input key still present.
C7_TypeBecomesIssuetype ==
    (f_state # "ready" /\ HasKey(f_in, "type")) =>
        /\ f_state = "returned"
        /\ HasKey(f_out, "issuetype")
        /\ Get(f_out, "issuetype") = Wrap(Get(f_in, "type"))
        /\ ~HasKey(f_out, "type")
        /\ \A k \in KeysOf(f_in) \ {"type"} : HasKey(f_out, k)

\* C8: normalization maps each of priority, assignee, reporter and parent that
\* is present to {name: original value}, leaves every key other than these
\* four and type mapped to its original value, removes no key but type and
\* adds no key but issuetype.  The mapping is read as normalization leaves it
\* (it is changed in place), and the issuetype entry that type produces is
\* not counted as a change to another key.
C8_NameKeysWrappedOthersUnchanged ==
    f_state # "ready" =>
        /\ \A k \in KeysOf(f_in) \cap NameKeys :
              HasKey(f_out, k) /\ Get(f_out, k) = Wrap(Get(f_in, k))
        /\ \A k \in KeysOf(f_in) \ (NameKeys \cup {"type"}) :
              /\ HasKey(f_out, k)
              /\ \/ Get(f_out, k) = Get(f_in, k)
                 \/ k = "issuetype" /\ HasKey(f_in, "type")
        /\ KeysOf(f_in) \ KeysOf(f_out) \subseteq {"type"}
        /\ KeysOf(f_out) \ KeysOf(f_in) \subseteq {"issuetype"}

\* C9: building the ticket url a second time changes neither ticket_id nor
\* the url; an id that carries the project prefix is not prefixed again, an
\* id without a prefix becomes project-id and an unset id yields no url.
C9_UrlBuilderIdempotent ==
    /\ url_builds >= 2 =>
          /\ ticket_id = url_first.ticket_id
          /\ ticket_url = url_first.url
          /\ request_result.url = url_first.url
    /\ url_builds >= 1 =>
          /\ StartsWith(url_id0, project \o <<"-">>) =>
                /\ ticket_id = url_id0
                /\ ticket_url = Url \o <<"/browse/">> \o url_id0
          /\ (Truthy(url_id0) /\ ~Contains(url_id0, "-")) =>
                /\ ticket_id = project \o <<"-">> \o url_id0
                /\ ticket_url = Url \o <<"/browse/">> \o project \o <<"-">> \o url_id0
          /\ ~Truthy(url_id0) =>
                /\ ticket_url = None
                /\ request_result.url = None

C9_Witness ==
    /\ url_builds = 2
    /\ url_id0 = <<"1">>
    /\ ticket_id = project \o <<"-", "1">>


\* create got a success status and a body that carries the new key
CreateSucceeded ==
    /\ op.name = "create"
    /\ op.args[1] # None
    /\ op.args[2] # None
    /\ FirstCallListed

CreateRejected ==
    /\ op.name = "create"
    /\ op.args[1] # None
    /\ op.args[2] # None
    /\ Len(calls) = 1
    /\ calls[1].resp.status # "ok"

\* what create itself does: on success ticket_id is the key of the response
\* and the result is Success with url <base_url>/browse/<key>; on a failed
\* remote call ticket_id and url stay as they were
C10_CreateStep ==
    /\ CreateSucceeded =>
          /\ ticket_id = calls[1].resp.key
          /\ Returned
          /\ ret.status = "Success"
          /\ ret.url = Url \o <<"/browse/">> \o calls[1].resp.key
          /\ ticket_url = ret.url
    /\ CreateRejected =>
          /\ ticket_id = op.id0
          /\ ticket_url = op.url0
          /\ request_result.url = op.url0

\* C10 (as stated): after a successful create, every later operation on the
\* handle returns the url of that create; the explicit setter is left out.
C10_EveryLaterOperationSameUrl ==
    /\ []C10_CreateStep
    /\ [][(created # None /\ op'.name # "set_ticket_id" /\ ret' # NoResult)
             => ret'.url = created]_vars

\* C10 (amended): create on success sets ticket_id to the key of the response
\* and returns Success with url <base_url>/browse/<key>, and on a failed remote
\* call leaves ticket_id and url unchanged; every later operation returns the
\* url of the latest successful create, until set_ticket_id replaces the id.
C10_LaterOperationsReturnLatestCreatedUrl ==
    /\ C10_CreateStep
    /\ CreateSucceeded => created = ret.url
    /\ (created # None /\ Returned) => ret.url = created

C10_Witness ==
    /\ op.name = "add_comment"
    /\ created = Url \o <<"/browse/", "P", "-", "3">>
    /\ Returned
    /\ ret.status = "Failure"
    /\ ret.url = created


TransitionsUrl(id) == rest_url \o <<"/">> \o id \o <<"/transitions">>

\* the listed transitions that lead to the requested status
Matching == {i \in 1..Len(calls[1].resp.list) : calls[1].resp.list[i].to = op.args[1]}

\* C11: change_status with a ticket id set first fetches the transitions and
\* only then issues the transition call, with the id of the first listed
\* transition whose target status is the requested one; when the listing fails
\* or lists no such transition it returns Failure and issues no transition call.
C11_ListThenTransition ==
    (op.name = "change_status" /\ Truthy(op.id0)) =>
        /\ Len(calls) \in {1, 2}
        /\ calls[1].verb = "GET"
        /\ calls[1].url = TransitionsUrl(op.id0)
        /\ Len(calls) = 2 =>
              /\ FirstCallListed
              /\ Matching # {}
              /\ calls[2].verb = "POST"
              /\ calls[2].url = TransitionsUrl(op.id0)
              /\ LET first == CHOOSE i \in Matching : \A j \in Matching : i <= j
                 IN calls[2].data = calls[1].resp.list[first].id
        /\ (FirstCallListed /\ Matching # {}) => Len(calls) = 2
        /\ (calls[1].resp.status # "ok" \/ (FirstCallListed /\ Matching = {})) =>
              /\ Returned
              /\ ret.status = "Failure"
              /\ Len(calls) = 1

C11_Witness ==
    /\ op.name = "change_status"
    /\ Len(calls) = 2
    /\ Cardinality(Matching) = 2
    /\ calls[1].resp.list[1].id # calls[1].resp.list[2].id
    /\ calls[2].data = calls[1].resp.list[1].id
    /\ Returned
    /\ ret.status = "Success"


\* the record kept on the handle: Success, no message, no watchers, and the
\* url of the handle
StoredRecordClean ==
    /\ request_result.status = "Success"
    /\ request_result.error_message = None
    /\ request_result.ticket_content = None
    /\ request_result.watchers = None
    /\ request_result.url = ticket_url

\* C12: after any sequence of operations the record kept on the handle has
\* status Success, no error message and no watchers; only a successful create
\* or set_ticket_id changes ticket_id or the url; and a returned result is a
\* Failure only for a cause of its own operation and carries watchers only as
\* the listing of its own remove_all_watchers call.
C12_NothingCarriesOver ==
    /\ StoredRecordClean
    /\ (op.name # "__init__" /\ (ticket_id # op.id0 \/ ticket_url # op.url0)) =>
          \/ op.name = "set_ticket_id"
          \/ op.name = "create" /\ Returned /\ ret.status = "Success"
    /\ (op.name # "__init__" /\ Returned) =>
          /\ ret.url = ticket_url
          /\ ret.status \in {"Success", "Failure"}
          /\ ret.status = "Success" => ret.error_message = None
          /\ ret.status = "Failure" => (PreconditionFailed \/ RemoteFailed)
          /\ ret.watchers # None =>
                /\ op.name = "remove_all_watchers"
                /\ FirstCallListed
                /\ ret.watchers = calls[1].resp.list

C12_Witness ==
    /\ op.prev = "carried"
    /\ op.name = "add_comment"
    /\ Returned
    /\ ret.status = "Success"
    /\ ret.error_message = None
    /\ ret.watchers = None
    /\ StoredRecordClean

====
